---- MODULE Spec2Model ----
(***************************************************************************)
(* OpenLibraryAPI (src/lib/open_library_api.py): the memoized search        *)
(* method search_books, decorated with functools.lru_cache, and the pure    *)
(* formatter format_search_result.                                          *)
(*                                                                          *)
(* Python values are tagged records, so that None, text, numbers, lists,    *)
(* tuples and dicts can be told apart the way the code tells them apart     *)
(* (truthiness, hashability, isinstance).  Text is a TLA+ string.           *)
(***************************************************************************)
EXTENDS Integers, Sequences, FiniteSets, TLC

VARIABLES
    memo,     \* the lru_cache of search_books: <<[key, result]>>, least recently used first
              \* (self.cache, the dict of __init__, is never read or written)
    last,     \* what the latest call of search_books did: arguments, outcome, request sent
    recent,   \* the keys of the calls that returned, least recently used first
              \* (recorded in LruSpec only; the code keeps no such list)
    result,   \* the raw record handed to format_search_result
    output    \* what format_search_result did with it

vars == <<memo, last, recent, result, output>>

-----------------------------------------------------------------------------
(* Python values *)

None == [t |-> "None"]
\* a key missing from a dict, a keyword argument not passed
Absent == [t |-> "absent"]
Str(s) == [t |-> "str", v |-> s]
Num(n) == [t |-> "int", v |-> n]
\* a list / a tuple of text
List(xs) == [t |-> "list", v |-> xs]
Tuple(xs) == [t |-> "tuple", v |-> xs]
\* a dict with the one key "value" (the nested description object)
Dict(value) == [t |-> "dict", value |-> value]

\* bool(x)
Truthy(x) ==
    CASE x.t = "None" -> FALSE
      [] x.t = "absent" -> FALSE
      [] x.t = "str" -> x.v # ""
      [] x.t = "int" -> x.v # 0
      [] x.t = "list" -> Len(x.v) > 0
      [] x.t = "tuple" -> Len(x.v) > 0
      [] x.t = "dict" -> x.value # Absent

\* hash(x) succeeds: lists and dicts are unhashable
Hashable(x) == x.t \notin {"list", "dict"}

\* str.replace(" ", "+")
RECURSIVE ReplaceFrom(_, _)
ReplaceFrom(s, i) ==
    IF i > Len(s) THEN ""
    ELSE (IF SubSeq(s, i, i) = " " THEN "+" ELSE SubSeq(s, i, i)) \o ReplaceFrom(s, i + 1)

replace(s) == ReplaceFrom(s, 1)

\* sep.join(xs) for a sequence of text
RECURSIVE join(_, _)
join(sep, xs) ==
    IF Len(xs) = 0 THEN ""
    ELSE IF Len(xs) = 1 THEN xs[1]
    ELSE xs[1] \o sep \o join(sep, Tail(xs))

\* str.strip(), for the blank character
RECURSIVE strip(_)
strip(s) ==
    IF Len(s) = 0 THEN s
    ELSE IF SubSeq(s, 1, 1) = " " THEN strip(SubSeq(s, 2, Len(s)))
    ELSE IF SubSeq(s, Len(s), Len(s)) = " " THEN strip(SubSeq(s, 1, Len(s) - 1))
    ELSE s

\* min(a, b)
min(a, b) == IF a < b THEN a ELSE b

-----------------------------------------------------------------------------
(* search_books: the arguments *)

ArgNames == {"title", "author", "isbn", "fields", "limit", "page", "sort"}

\* a call that passes no argument
NoArgs ==
    [title |-> Absent, author |-> Absent, isbn |-> Absent, fields |-> Absent,
     limit |-> Absent, page |-> Absent, sort |-> Absent]

\* the defaults of the signature
Defaults ==
    [title |-> None, author |-> None, isbn |-> None,
     fields |-> List(<<"title", "author_name", "first_publish_year",
                       "publisher", "isbn", "cover_i", "description">>),
     limit |-> Num(5), page |-> Num(1), sort |-> None]

\* the parameters the body sees: what was passed, else the default
Bind(kw) == [n \in ArgNames |-> IF kw[n] = Absent THEN Defaults[n] ELSE kw[n]]

\* API max limit
ApiMaxLimit == 100

\* variant: only the title is looked at
AnyCriteriaTitleOnly(b) == Truthy(b["title"])

\* any([title, author, isbn])
AnyCriteria(b) == Truthy(b["title"]) \/ Truthy(b["author"]) \/ Truthy(b["isbn"])

\* one of title, author, isbn in params: set only when truthy, blanks replaced
ParamText(x) == IF Truthy(x) THEN Str(replace(x.v)) ELSE Absent

\* variant: the limit is sent as requested
ParamLimitRaw(limit) == limit

\* params["limit"]
ParamLimit(limit) == Num(min(limit.v, ApiMaxLimit))

\* variant: any text is sent as the sort
ParamSortAny(sort) == IF sort.t = "str" THEN sort ELSE Absent

\* params["sort"]: set only for the three values
ParamSort(sort) ==
    IF sort = Str("new") THEN Str("new")
    ELSE IF sort = Str("old") THEN Str("old")
    ELSE IF sort = Str("title") THEN Str("title")
    ELSE Absent

\* the query parameters built from the bound arguments
Params(b) ==
    [title |-> ParamText(b["title"]),
     author |-> ParamText(b["author"]),
     isbn |-> ParamText(b["isbn"]),
     fields |-> Str(join(",", b["fields"].v)),
     limit |-> ParamLimit(b["limit"]),
     page |-> b["page"],
     sort |-> ParamSort(b["sort"])]

\* no request was sent
NoCall == [t |-> "nocall"]
\* nothing was returned
NoResult == [t |-> "noresult"]

\* what the remote service does with a request, if it gets one
Ok(body) == [t |-> "ok", body |-> body]
Failed(e) == [t |-> "failed", error |-> e]

\* requests.exceptions.RequestException and its subclasses raised by get,
\* raise_for_status and json
RequestExceptions == {"ConnectionError", "HTTPError"}

\* variant: the request is sent before the criteria are looked at
SearchBooksSendFirst(b, remote) ==
    IF ~AnyCriteria(b)
    THEN [outcome |-> "ValueError", sent |-> Params(b), result |-> NoResult]
    ELSE IF remote.t = "ok"
    THEN [outcome |-> "ok", sent |-> Params(b), result |-> Str(remote.body)]
    ELSE [outcome |-> remote.error, sent |-> Params(b), result |-> NoResult]

\* the body of search_books, undecorated
SearchBooks(b, remote) ==
    IF ~AnyCriteria(b)
    THEN [outcome |-> "ValueError", sent |-> NoCall, result |-> NoResult]
    ELSE IF remote.t = "ok"
    THEN [outcome |-> "ok", sent |-> Params(b), result |-> Str(remote.body)]
    ELSE [outcome |-> remote.error, sent |-> Params(b), result |-> NoResult]

-----------------------------------------------------------------------------
(* functools.lru_cache(maxsize) around search_books *)

\* capacity of the memo: 100 in the source, scaled here; the discipline of
\* LruStore and LruTouch does not depend on the number
maxsize == 2

\* the key of a call: the arguments as passed
MakeKey(kw) == kw

KeyHashable(kw) == \A n \in ArgNames : Hashable(kw[n])

\* the position of key in the memo, 0 when it is not there
LruFind(m, key) ==
    IF \E i \in 1..Len(m) : m[i].key = key
    THEN CHOOSE i \in 1..Len(m) : m[i].key = key
    ELSE 0

\* variant: a hit leaves the order alone
LruTouchNoMove(m, i) == m

\* a hit: the entry becomes the most recently used
LruTouch(m, i) ==
    SubSeq(m, 1, i - 1) \o SubSeq(m, i + 1, Len(m)) \o <<m[i]>>

\* variant: nothing is stored
LruStoreNothing(m, key, res) == m

\* a miss that returned: the result is stored, the least recently used
\* entry leaves a full memo
LruStore(m, key, res) ==
    IF Len(m) >= maxsize
    THEN Tail(m) \o <<[key |-> key, result |-> res]>>
    ELSE m \o <<[key |-> key, result |-> res]>>

\* variant: what was raised is stored too
CacheableAlways(outcome) == TRUE

\* exceptions are never stored
Cacheable(outcome) == outcome = "ok"

\* what the call does with what the body did: only a return is stored
Finish(m, kw, r) ==
    [memo |-> IF Cacheable(r.outcome) THEN LruStore(m, MakeKey(kw), r.result) ELSE m,
     outcome |-> r.outcome, hit |-> FALSE, sent |-> r.sent, result |-> r.result]

\* a hit: the stored result, and no call of the body
Hit(m, i) ==
    [memo |-> LruTouch(m, i), outcome |-> "ok", hit |-> TRUE,
     sent |-> NoCall, result |-> m[i].result]

\* the key is looked up; the body runs on a miss only
Lookup(m, kw, remote, i) ==
    IF i > 0 THEN Hit(m, i) ELSE Finish(m, kw, SearchBooks(Bind(kw), remote))

\* the decorated search_books, called with keyword arguments kw
LruCacheWrapper(m, kw, remote) ==
    IF ~KeyHashable(kw)
    THEN [memo |-> m, outcome |-> "TypeError", hit |-> FALSE,
          sent |-> NoCall, result |-> NoResult]
    ELSE Lookup(m, kw, remote, LruFind(m, MakeKey(kw)))

-----------------------------------------------------------------------------
(* format_search_result *)

\* variant: the default also replaces a falsy value
GetFalsy(d, k, default) == IF Truthy(d[k]) THEN d[k] ELSE default

\* result.get(k, default)
Get(d, k, default) == IF d[k] = Absent THEN default ELSE d[k]

Digits == "0123456789"

\* str(n) of an integer
RECURSIVE Decimal(_)
Decimal(n) ==
    IF n < 0 THEN "-" \o Decimal(-n)
    ELSE IF n < 10 THEN SubSeq(Digits, n + 1, n + 1)
    ELSE Decimal(n \div 10) \o SubSeq(Digits, (n % 10) + 1, (n % 10) + 1)

\* how an f-string shows a value
Show(x) ==
    CASE x.t = "str" -> x.v
      [] x.t = "None" -> "None"
      [] x.t = "int" -> Decimal(x.v)

\* the values an operation raises TypeError on
Raises == [t |-> "TypeError"]

\* ", ".join(x): x has to be a sequence of text
JoinComma(x) == IF x.t = "list" THEN Str(join(", ", x.v)) ELSE Raises

\* the number of characters of the description shown
DescriptionChars == 200

\* variant: the cut is one character short
SliceShort(x) ==
    IF x.t = "str" THEN Str(SubSeq(x.v, 1, min(Len(x.v), DescriptionChars - 1))) ELSE Raises

\* x[:DescriptionChars]: x has to be text
Slice(x) ==
    IF x.t = "str" THEN Str(SubSeq(x.v, 1, min(Len(x.v), DescriptionChars))) ELSE Raises

NoDescription == Str("No description available")

\* isinstance(description, dict): the text is under "value"
Description(d) == IF d.t = "dict" THEN Get(d, "value", NoDescription) ELSE d

CoverUrl(id) == "https://covers.openlibrary.org/b/id/" \o Show(id) \o "-L.jpg"

\* the cover line is added for a truthy cover_i only
CoverLine(id) == IF Truthy(id) THEN <<"Cover: " \o CoverUrl(id)>> ELSE <<>>

\* the lines of the text returned
Lines(title, authors, year, publisher, isbns, description, cover) ==
    [outcome |-> "ok",
     lines |-> << "Title: " \o Show(title),
                  "Author(s): " \o authors.v,
                  "First Published: " \o Show(year),
                  "Publisher(s): " \o publisher.v,
                  "ISBN(s): " \o isbns.v,
                  "Description: " \o description.v \o "..." >>
               \o CoverLine(cover)]

\* a join or the slice raised
Built(title, authors, year, publisher, isbns, description, cover) ==
    IF Raises \in {authors, publisher, isbns, description}
    THEN [outcome |-> "TypeError", lines |-> <<>>]
    ELSE Lines(title, authors, year, publisher, isbns, description, cover)

FormatSearchResult(r) ==
    Built(Get(r, "title", Str("Unknown Title")),
          JoinComma(Get(r, "author_name", List(<<"Unknown Author">>))),
          Get(r, "first_publish_year", Str("Unknown Year")),
          JoinComma(Get(r, "publisher", List(<<"Unknown Publisher">>))),
          JoinComma(Get(r, "isbn", List(<<"Unknown ISBN">>))),
          Slice(Description(Get(r, "description", NoDescription))),
          Get(r, "cover_i", None))

-----------------------------------------------------------------------------
(* State machines *)

NoRecord == [t |-> "norecord"]
NotFormatted == [outcome |-> "none", lines |-> <<>>]
NotCalled == [kw |-> NoArgs, outcome |-> "none", hit |-> FALSE,
              sent |-> NoCall, result |-> NoResult]

Init ==
    /\ memo = <<>>
    /\ last = NotCalled
    /\ recent = <<>>
    /\ result = NoRecord
    /\ output = NotFormatted

\* one call of search_books(**kw), the remote service answering with remote
search_books(kw, remote) ==
    \E c \in {LruCacheWrapper(memo, kw, remote)} :
        /\ memo' = c.memo
        /\ last' = [kw |-> kw, outcome |-> c.outcome, hit |-> c.hit,
                    sent |-> c.sent, result |-> c.result]
        /\ UNCHANGED <<result, output>>

\* the keys of the calls that returned, the latest last
Use(seq, key) == SelectSeq(seq, LAMBDA k : k # key) \o <<key>>

\* a call, and the record of which keys were used when
Observed(kw, remote) ==
    /\ search_books(kw, remote)
    /\ recent' = IF last'.outcome = "ok" THEN Use(recent, MakeKey(kw)) ELSE recent

With(kw, n, x) == [kw EXCEPT ![n] = x]
Title(s) == With(NoArgs, "title", Str(s))
\* the call of the advanced search of main()
Advanced(title, author, isbn, limit, sort) ==
    [NoArgs EXCEPT !.title = title, !.author = author, !.isbn = isbn,
                   !.limit = limit, !.sort = sort]

\* calls that differ in the search criteria and in how they are passed
Requests ==
    { NoArgs,
      Title(""),
      Title(" "),
      Title("a b"),
      Title("a+b"),
      Title("a  b"),
      With(NoArgs, "author", Str("x y")),
      With(NoArgs, "isbn", Str("12 3")),
      Advanced(Str("a b"), None, None, Num(5), None),
      Advanced(None, None, None, Num(5), None),
      Advanced(Str(""), Str(""), Str(""), Num(5), None),
      With(Title("a b"), "fields", Tuple(<<"title", "isbn">>)),
      With(Title("a b"), "fields", List(<<"title", "isbn">>)),
      With(NoArgs, "fields", List(<<"title">>)) }

\* calls that differ in limit and page
LimitRequests ==
    { NoArgs, With(NoArgs, "limit", Num(500)), Title("a b"),
      With(Title("a b"), "page", Num(2)) }
    \cup { With(Title("a b"), "limit", Num(n)) : n \in {-1, 0, 1, 100, 101, 500} }

\* calls that differ in sort
SortRequests ==
    { NoArgs, With(NoArgs, "sort", Str("new")), Title("a b") }
    \cup { With(Title("a b"), "sort", x) :
             x \in {None, Str("new"), Str("old"), Str("title"), Str("bogus"), Str("NEW"), Str("")} }

\* calls with distinct keys, more of them than the memo holds
LruRequests ==
    { Title("a"), Title("b"), Title("c"), Title("d"), Title("") }

Remotes == {Ok("r1"), Failed("ConnectionError"), Failed("HTTPError")}
LruRemotes == {Ok("r1"), Ok("r2"), Failed("HTTPError")}

Next ==
    \E kw \in Requests, remote \in Remotes :
        search_books(kw, remote) /\ UNCHANGED recent

Spec == Init /\ [][Next]_vars

LimitNext ==
    \E kw \in LimitRequests, remote \in Remotes :
        search_books(kw, remote) /\ UNCHANGED recent

LimitSpec == Init /\ [][LimitNext]_vars

SortNext ==
    \E kw \in SortRequests, remote \in Remotes :
        search_books(kw, remote) /\ UNCHANGED recent

SortSpec == Init /\ [][SortNext]_vars

LruNext ==
    \E kw \in LruRequests, remote \in LruRemotes : Observed(kw, remote)

LruSpec == Init /\ [][LruNext]_vars

\* n times the character "x"
RECURSIVE Run(_)
Run(n) ==
    IF n = 0 THEN ""
    ELSE IF n % 2 = 1 THEN "x" \o Run(n - 1)
    ELSE Run(n \div 2) \o Run(n \div 2)

\* text of n characters, its first and last character unlike the others
Chars(n) == IF n < 2 THEN Run(n) ELSE "<" \o Run(n - 2) \o ">"

\* descriptions: missing, null, text around the cut, the nested object
Descriptions ==
    { Absent, None, Dict(Absent), Dict(None), Dict(Str("nested")), Dict(Str(Chars(201))) }
    \cup { Str(Chars(n)) : n \in {0, 3, 199, 200, 201, 500} }

\* raw records: every field missing, null, empty or filled
Records ==
    [ title : {Absent, None, Str(""), Str("Dune")},
      author_name : {Absent, None, List(<<>>), List(<<"A">>), List(<<"A", "B">>)},
      first_publish_year : {Absent, None, Num(1965)},
      publisher : {Absent, None, List(<<>>), List(<<"P", "Q">>)},
      isbn : {Absent, None, List(<<>>), List(<<"12">>)},
      cover_i : {Absent, None, Num(0), Num(42)},
      description : Descriptions ]

FormatInit ==
    /\ memo = <<>>
    /\ last = NotCalled
    /\ recent = <<>>
    /\ result \in Records
    /\ output = NotFormatted

\* one call of format_search_result(result)
format_search_result ==
    /\ output' = FormatSearchResult(result)
    /\ UNCHANGED <<memo, last, recent, result>>

FormatNext == format_search_result

FormatSpec == FormatInit /\ [][FormatNext]_vars

-----------------------------------------------------------------------------
(* Properties *)

\* a call of search_books has been made
Searched == last.outcome # "none"

\* the arguments of the latest call, defaults filled in
LastArgs == Bind(last.kw)

\* title, author and isbn are each None or the empty text
EmptyCriteria(b) ==
    \A n \in {"title", "author", "isbn"} : b[n] \in {None, Str("")}

\* title, author and isbn are each None, empty, or empty once trimmed
BlankCriteria(b) ==
    \A n \in {"title", "author", "isbn"} :
        b[n] = None \/ (b[n].t = "str" /\ strip(b[n].v) = "")

\* the keys the memo holds
MemoKeys == {memo[i].key : i \in 1..Len(memo)}

Descriptor(kw) == Params(Bind(kw))

\* C2 as stated: a search that follows a returned search with the same
\* normalized title, author, isbn, fields, limit, page and sort issues no
\* remote call.
C2_Original ==
    [][(last.outcome = "ok" /\ Descriptor(last'.kw) = Descriptor(last.kw))
          => last'.sent = NoCall]_vars

\* C2 as amended: a search that follows a returned search with the same
\* arguments, passed the same way, issues no remote call and returns the
\* result of the first from the memo.
C2_Amended ==
    [][(last.outcome = "ok" /\ last'.kw = last.kw)
          => (last'.outcome = "ok" /\ last'.hit /\ last'.sent = NoCall
              /\ last'.result = last.result)]_vars

C2_Witness ==
    /\ last.outcome = "ok" /\ last.hit /\ last.sent = NoCall
    /\ Len(memo) > 0 /\ memo[Len(memo)].key = last.kw
    /\ memo[Len(memo)].result = last.result

\* C3: a search whose remote call failed sent a request, left the memo as it
\* was and is not in it, and the same search made again sends a request again.
C3_FailureNotCached ==
    /\ [](last.outcome \in RequestExceptions =>
              (last.sent # NoCall /\ last.kw \notin MemoKeys))
    /\ [][last'.outcome \in RequestExceptions => memo' = memo]_vars
    /\ [][(last.outcome \in RequestExceptions /\ last'.kw = last.kw)
              => last'.sent # NoCall]_vars

C3_Witness ==
    /\ last.outcome = "HTTPError" /\ last.sent # NoCall
    /\ Len(memo) = maxsize

\* the keys that a memo of maxsize entries with least-recently-used eviction
\* holds: the maxsize keys used last
Retained ==
    SubSeq(recent, Len(recent) - min(maxsize, Len(recent)) + 1, Len(recent))

RetainedKeys == {Retained[i] : i \in 1..Len(Retained)}

\* C4: the memo holds exactly the maxsize most recently used keys, a hit
\* counting as a use: after more distinct returned searches than maxsize the
\* least recently used keys are the ones gone; a search of a key no longer
\* held sends a request, a search of a key held sends none.
C4_LruEviction ==
    /\ [](/\ Len(memo) = Len(Retained)
          /\ \A i \in 1..Len(memo) : memo[i].key = Retained[i])
    /\ [][last'.outcome # "ValueError" =>
              /\ last'.hit <=> last'.kw \in RetainedKeys
              /\ last'.hit <=> last'.sent = NoCall]_vars

C4_Witness ==
    /\ Len(recent) = maxsize + 1
    /\ Len(memo) = maxsize
    /\ recent[1] \notin MemoKeys
    /\ last.hit /\ last.kw = recent[Len(recent)]

\* C5: a search that ends in the validation error has sent no request and
\* leaves the memo as it was.
C5_ValidationBeforeRemote ==
    /\ [](last.outcome = "ValueError" => last.sent = NoCall)
    /\ [][last'.outcome = "ValueError" => memo' = memo]_vars

C5_Witness ==
    /\ last.outcome = "ValueError" /\ last.sent = NoCall
    /\ Len(memo) > 0

\* C6 as stated: every request sent carries a limit from 1 to 100, and a
\* requested limit below 1 is rejected, not sent.
C6_Original ==
    Searched =>
        /\ last.sent # NoCall => last.sent.limit.v \in 1..100
        /\ LastArgs.limit.v < 1 => (last.outcome = "ValueError" /\ last.sent = NoCall)

\* C6 as amended: every request sent carries the requested limit, or 100 when
\* more than 100 was requested; no limit is rejected: only missing criteria are.
C6_Amended ==
    Searched =>
        /\ last.sent # NoCall =>
               /\ last.sent.limit.t = "int"
               /\ last.sent.limit.v <= 100
               /\ LastArgs.limit.v > 100 => last.sent.limit.v = 100
               /\ LastArgs.limit.v <= 100 => last.sent.limit.v = LastArgs.limit.v
        /\ last.outcome \in {"ValueError", "TypeError"} => EmptyCriteria(LastArgs)

C6_Witness ==
    /\ last.kw.limit = Num(0)
    /\ last.outcome = "ok" /\ last.sent # NoCall
    /\ last.sent.limit = Num(0)

\* C10: a request sent carries a sort only when the requested sort is new,
\* old or title, and then that value; any other requested sort is no error:
\* the only error before the request is the one for missing criteria.
C10_SortVocabulary ==
    Searched =>
        /\ last.sent # NoCall =>
               last.sent.sort =
                   (IF LastArgs.sort \in {Str("new"), Str("old"), Str("title")}
                    THEN LastArgs.sort ELSE Absent)
        /\ last.outcome \in {"ValueError", "TypeError"} => EmptyCriteria(LastArgs)
        /\ ~EmptyCriteria(LastArgs) /\ ~last.hit => last.sent # NoCall

C10_Witness ==
    /\ last.kw.sort = Str("bogus")
    /\ last.outcome = "ok" /\ last.sent # NoCall
    /\ last.sent.sort = Absent

\* format_search_result has been called
Formatted == output.outcome # "none"

\* C7 as stated: format_search_result returns for every raw record, also one
\* with a field present but null.
C7_NeverFails == Formatted => output.outcome = "ok"

\* the empty sequence of a raw record
EmptyList == List(<<>>)

\* C8 as stated: in the text returned each field shows its default when the
\* source field is absent or empty.
C8_Original ==
    output.outcome = "ok" =>
        /\ result.title \in {Absent, Str("")} => output.lines[1] = "Title: Unknown Title"
        /\ result.author_name \in {Absent, EmptyList} =>
               output.lines[2] = "Author(s): Unknown Author"
        /\ result.first_publish_year = Absent =>
               output.lines[3] = "First Published: Unknown Year"
        /\ result.publisher \in {Absent, EmptyList} =>
               output.lines[4] = "Publisher(s): Unknown Publisher"
        /\ result.isbn \in {Absent, EmptyList} => output.lines[5] = "ISBN(s): Unknown ISBN"
        /\ result.cover_i = Absent => Len(output.lines) = 6

\* C8 as amended: in the text returned each field shows its default when the
\* source field is absent; an empty title and an empty sequence are shown as
\* they are, as empty text; without cover_i there is no cover line.
C8_Amended ==
    output.outcome = "ok" =>
        /\ result.title = Absent => output.lines[1] = "Title: Unknown Title"
        /\ result.title = Str("") => output.lines[1] = "Title: "
        /\ result.author_name = Absent => output.lines[2] = "Author(s): Unknown Author"
        /\ result.author_name = EmptyList => output.lines[2] = "Author(s): "
        /\ result.first_publish_year = Absent =>
               output.lines[3] = "First Published: Unknown Year"
        /\ result.publisher = Absent => output.lines[4] = "Publisher(s): Unknown Publisher"
        /\ result.publisher = EmptyList => output.lines[4] = "Publisher(s): "
        /\ result.isbn = Absent => output.lines[5] = "ISBN(s): Unknown ISBN"
        /\ result.isbn = EmptyList => output.lines[5] = "ISBN(s): "
        /\ result.description = Absent =>
               output.lines[6] = "Description: No description available..."
        /\ result.cover_i = Absent => Len(output.lines) = 6

\* the empty record, formatted
C8_Witness ==
    /\ \A k \in DOMAIN result : result[k] = Absent
    /\ output.outcome = "ok"
    /\ output.lines = << "Title: Unknown Title", "Author(s): Unknown Author",
                         "First Published: Unknown Year",
                         "Publisher(s): Unknown Publisher", "ISBN(s): Unknown ISBN",
                         "Description: No description available..." >>

\* the description of a raw record is text: given directly, under "value" of
\* the nested object, or missing
HasDescriptionText(d) ==
    \/ d = Absent
    \/ d.t = "str"
    \/ (d.t = "dict" /\ (d.value = Absent \/ d.value.t = "str"))

\* that text
DescriptionText(d) ==
    IF d = Absent THEN "No description available"
    ELSE IF d.t = "str" THEN d.v
    ELSE IF d.value = Absent THEN "No description available"
    ELSE d.value.v


\* C9: in the text returned the description shown is the first min(L, 200)
\* characters of the description text of length L, followed by "...", also
\* when L is below 200.
C9_DescriptionCut ==
    (output.outcome = "ok" /\ HasDescriptionText(result.description)) =>
        LET text == DescriptionText(result.description)
            L == Len(text)
            shown == output.lines[6]
            n == IF L < 200 THEN L ELSE 200
        IN /\ Len(shown) = Len("Description: ") + n + 3
           /\ SubSeq(shown, 1, 13) = "Description: "
           /\ SubSeq(shown, 14, 13 + n) = SubSeq(text, 1, n)
           /\ SubSeq(shown, 14 + n, 16 + n) = "..."

C9_Witness ==
    /\ output.outcome = "ok"
    /\ result.description.t = "str" /\ Len(result.description.v) = 500
    /\ Len(output.lines[6]) = 216

====
